---- MODULE Spec2Model ----
(***************************************************************************)
(* Model of services/connection_manager.py: the ConnectionManager scan     *)
(* orchestrator (profile registry, start_scan / stop_scan, _run_scan,      *)
(* _scan_single, _scan_sequential, _scan_parallel, _tag_inventory) and the *)
(* ConsolidatedResult it builds.                                           *)
(*                                                                         *)
(* Threads: the caller (add_profile, start_scan, stop_scan), the           *)
(* "ScanOrchestrator" thread (_run_scan) and, in parallel mode, the        *)
(* ThreadPoolExecutor workers that run _scan_single.  Every blocking call  *)
(* to the extraction client (connect, extract_*, disconnect) is one step;  *)
(* its outcome (success or an exception) is chosen by the environment.     *)
(*                                                                         *)
(* Specifications:                                                         *)
(*   Spec, FairSpec  one run on the registry as the caller has filled it   *)
(*                   before the run; stop_scan at any time.                *)
(*   RerunSpec       runs started from the panel's scan button, one after  *)
(*                   the other (reset_all_statuses, then start_scan).      *)
(*   RegistrySpec    the registry's operations and test_connection, with   *)
(*                   no run in progress.                                   *)
(*   LiveSpec        one sequential run, on the registry or on an override *)
(*                   list, while the caller adds and removes profiles.     *)
(*   PoolSpec        one run whose config may carry any worker count.      *)
(*   RaiseSpec       one run in which a single-source scan may raise       *)
(*                   instead of returning.                                 *)
(*   PanelSpec       one run with a connection test and status resets      *)
(*                   going on at the same time.                            *)
(*   OverlapSpec     one run during which start_scan is called again.      *)
(***************************************************************************)
EXTENDS Integers, Sequences, FiniteSets, TLC

\* Bounds of the model.
MaxProfiles == 2
MaxWorkers == 2

VARIABLES
    profiles,     \* self.profiles: the registry, a list of profile ids
    prof,         \* the ConnectionProfile objects: id -> mutable scan fields
    stop_event,   \* self._stop_event
    pc,           \* position of the ScanOrchestrator thread
    targets,      \* _run_scan's `profiles` argument
    config,       \* the ScanConfig of the run
    total,        \* _run_scan: total = len(profiles)
    idx,          \* loop index of _scan_sequential / the submit loop
    completed,    \* _scan_parallel: completed
    joined,       \* futures already yielded by as_completed
    result,       \* the run's ConsolidatedResult
    task,         \* per profile: the execution of _scan_single on it
    calls,        \* per profile: calls made on its VMwareService in this run
    callbacks,    \* on_progress / on_complete invocations, in order
    aliased,      \* the run's `profiles` is the very list self.profiles names
    runs,         \* number of start_scan calls made so far
    test,         \* per profile: the execution of test_connection on it
    at_start,     \* history: what the panel's last scan start found
    ran_on,       \* history: <<operation, thread>> of callbacks and appends
    profile,      \* _scan_sequential: the loop variable `profile`
    profiles_override  \* start_scan's argument of that name, as last given

vars == <<profiles, prof, stop_event, pc, targets, config, total, idx,
          completed, joined, result, task, calls, callbacks, aliased, runs,
          test, at_start, ran_on, profile, profiles_override>>

Ids == 1..MaxProfiles

\* The four categories, in the order _scan_single extracts them.
Cats == <<"virtual_machines", "hosts", "datastores", "networks">>

\* _scan_single's "return None".
NoInventory == [none |-> TRUE]

\* profile.display_name (derived from alias/host; fixed for a profile).
DisplayName(p) == "source-" \o ToString(p)

\* What the remote endpoint of profile p holds in category c (c \in 1..4):
\* the sequence svc.extract_*() returns when it succeeds.  Records carry no
\* source_name until _tag_inventory writes one.
RecordCount(p, c) == (p + c + 2) % 3

Extracted(p, c) ==
    [i \in 1..RecordCount(p, c) |->
        [origin |-> p, category |-> Cats[c], n |-> i, source_name |-> ""]]

\* str(e) of the exception a failing client call raises.
ErrorText(op) == op \o " failed"

\* ScanConfig toggles checked (each category is on in some and off in some).
ToggleSets ==
    { <<TRUE, TRUE, TRUE, TRUE>>, <<FALSE, TRUE, FALSE, TRUE>>,
      <<TRUE, FALSE, TRUE, FALSE>>, <<FALSE, FALSE, FALSE, FALSE>> }

Configs ==
    { [parallel |-> par, max_workers |-> w,
       include_vms |-> t[1], include_hosts |-> t[2],
       include_datastores |-> t[3], include_networks |-> t[4]] :
      par \in BOOLEAN, w \in 1..MaxWorkers, t \in ToggleSets }

\* Variant: the datastore extraction is guarded by the host toggle.
IncludeWrongToggle(cfg, c) ==
    CASE c = 1 -> cfg.include_vms
      [] c = 2 -> cfg.include_hosts
      [] c = 3 -> cfg.include_hosts
      [] c = 4 -> cfg.include_networks

\* The toggle _scan_single tests before extracting category c.
Include(cfg, c) ==
    CASE c = 1 -> cfg.include_vms
      [] c = 2 -> cfg.include_hosts
      [] c = 3 -> cfg.include_datastores
      [] c = 4 -> cfg.include_networks

NewProfile ==
    [status |-> "Pending", error_message |-> "",
     vms_found |-> 0, hosts_found |-> 0, datastores_found |-> 0]

\* ConsolidatedResult(): an empty dict and two empty lists.
EmptyResult ==
    [results_by_source |-> [q \in {} |-> NoInventory],
     completed_profiles |-> <<>>, failed_profiles |-> <<>>]

EmptyInventory ==
    [virtual_machines |-> <<>>, hosts |-> <<>>, datastores |-> <<>>,
     networks |-> <<>>]

\* _scan_single's frame: where it is, the category it has reached, what it
\* has extracted, the text of the exception it caught, what it returned.
NoTask == [pc |-> "none", cat |-> 0, inventory |-> EmptyInventory,
           exc |-> "", ret |-> NoInventory]

NoCalls == [connect |-> 0, disconnect |-> 0, extract |-> <<0, 0, 0, 0>>]

\* test_connection's frame: where it is, the calls it has made on its
\* VMwareService, the text of the exception it caught, what it returned.
NoTest == [pc |-> "none", calls |-> NoCalls, exc |-> "",
           ret |-> <<FALSE, "">>]

\* start_scan's profiles_override argument: None (the default), or a list.
NoOverride == [given |-> FALSE, list |-> <<>>]

\* Thread names: threading.Thread(name="ScanOrchestrator"), the pool's
\* thread_name_prefix="VMScan", and whoever calls the manager's methods.
Orchestrator == "ScanOrchestrator"
PoolWorker == "VMScan"
Caller == "caller"

TargetSet == {targets[i] : i \in 1..Len(targets)}

InSeq(x, s) == \E i \in 1..Len(s) : s[i] = x

\* What the panel's scan handler finds: the cancellation flag as left by
\* earlier stop_scan calls, and the profiles that carry an error message.
Found ==
    [stop |-> stop_event,
     errors |-> {p \in Ids : prof[p].error_message # ""}]

Init ==
    /\ profiles = <<>>
    /\ prof = [p \in Ids |-> NewProfile]
    /\ stop_event = FALSE
    /\ pc = "idle"
    /\ targets = <<>>
    /\ config = CHOOSE c \in Configs : TRUE
    /\ total = 0
    /\ idx = 0
    /\ completed = 0
    /\ joined = {}
    /\ result = EmptyResult
    /\ task = [p \in Ids |-> NoTask]
    /\ calls = [p \in Ids |-> NoCalls]
    /\ callbacks = <<>>
    /\ aliased = FALSE
    /\ runs = 0
    /\ test = [p \in Ids |-> NoTest]
    /\ at_start = [stop |-> FALSE, errors |-> {}]
    /\ ran_on = {}
    /\ profile = 0
    /\ profiles_override = NoOverride

\* ConnectionManager.add_profile, with a newly created profile (ids are
\* assigned at creation), called before the run is started.
add_profile ==
    /\ pc = "idle"
    /\ Len(profiles) < MaxProfiles
    /\ profiles' = Append(profiles, Len(profiles) + 1)
    /\ UNCHANGED <<prof, stop_event, pc, targets, config, total, idx,
                   completed, joined, result, task, calls, callbacks>>
    /\ UNCHANGED <<aliased, at_start, runs, test, ran_on, profile,
                   profiles_override>>

\* ConnectionManager.stop_scan
stop_scan ==
    /\ stop_event' = TRUE
    /\ UNCHANGED <<profiles, prof, pc, targets, config, total, idx,
                   completed, joined, result, task, calls, callbacks>>
    /\ UNCHANGED <<aliased, at_start, runs, test, ran_on, profile,
                   profiles_override>>

\* ConnectionManager.start_scan (no profiles_override).
start_scan ==
    /\ pc = "idle"
    /\ \E cfg \in Configs : config' = cfg
    /\ stop_event' = FALSE
    /\ targets' = profiles
    /\ pc' = "run"
    /\ UNCHANGED <<profiles, prof, total, idx, completed, joined, result,
                   task, calls, callbacks>>
    /\ aliased' = TRUE
    /\ runs' = runs + 1
    /\ UNCHANGED <<test, at_start, ran_on, profile>>
    /\ profiles_override' = NoOverride

\* ---------------------------------------------------------------------
\* ConsolidatedResult's derived properties
\* ---------------------------------------------------------------------

\* sum(len(r.<category>) for r in dict.values() if r and hasattr(...)):
\* every stored value is a SimpleInventory, which is truthy and has the
\* attribute.
RECURSIVE SumLen(_, _)
SumLen(dict, category) ==
    IF DOMAIN dict = {} THEN 0
    ELSE LET q == CHOOSE k \in DOMAIN dict : TRUE IN
         Len(dict[q][category])
            + SumLen([k \in DOMAIN dict \ {q} |-> dict[k]], category)

total_vms(res) == SumLen(res.results_by_source, "virtual_machines")

\* Variant: total_hosts sums the VM lists.
total_hosts_from_vms(res) == SumLen(res.results_by_source, "virtual_machines")

total_hosts(res) == SumLen(res.results_by_source, "hosts")

total_datastores(res) == SumLen(res.results_by_source, "datastores")

\* bool(self.results_by_source)
has_data(res) == DOMAIN res.results_by_source # {}

\* ---------------------------------------------------------------------
\* _run_scan and its emit closure
\* ---------------------------------------------------------------------

\* Variant: the percentage of the next position, ((k + 1) / n) * 100.
PctOfNext(k, n) == <<(k + 1) * 100, n>>

\* (k / n) * 100, kept exact as the fraction <<100 * k, n>>.
Pct(k, n) == <<k * 100, n>>

PctLeq(a, b) == a[1] * b[2] <= b[1] * a[2]
PctIs(a, v) == a[1] = v * a[2]

\* emit(profile, msg, pct, vms, hosts, error): on_progress(ScanProgress(...)).
\* The event carries profile.status as it is when emit runs.
Emit(p, msg, pct, vms, hosts, error) ==
    Append(callbacks,
           [cb |-> "progress", profile_id |-> p,
            profile_name |-> DisplayName(p), status |-> prof[p].status,
            message |-> msg, progress_pct |-> pct, vms_found |-> vms,
            hosts_found |-> hosts, error |-> error])

\* result.results_by_source[profile.id] = inventory
Put(dict, key, val) ==
    [q \in DOMAIN dict \cup {key} |-> IF q = key THEN val ELSE dict[q]]

\* Variant: the inventory is stored and completed_profiles.append(profile)
\* is missing.
RecordedWithoutAppend(res, p, inventory) ==
    IF inventory # NoInventory
    THEN [res EXCEPT !.results_by_source = Put(@, p, inventory)]
    ELSE [res EXCEPT !.failed_profiles = Append(@, p)]

\* The "if inventory is not None: ... else: ..." bookkeeping both strategies
\* do with what _scan_single returned.
Recorded(res, p, inventory) ==
    IF inventory # NoInventory
    THEN [res EXCEPT !.results_by_source = Put(@, p, inventory),
                     !.completed_profiles = Append(@, p)]
    ELSE [res EXCEPT !.failed_profiles = Append(@, p)]

\* Variant: no outcome event.
EmitNoOutcome(p, inventory, pct) == callbacks

\* The outcome event both strategies emit after the bookkeeping.
EmitOutcome(p, inventory, pct) ==
    IF inventory # NoInventory
    THEN Emit(p, "ok", pct, prof[p].vms_found, prof[p].hosts_found, "")
    ELSE Emit(p, "fail", pct, 0, 0, prof[p].error_message)

\* _run_scan up to the choice of strategy.
run_scan ==
    /\ pc = "run"
    /\ result' = EmptyResult
    /\ total' = Len(targets)
    /\ idx' = 0
    /\ completed' = 0
    /\ joined' = {}
    /\ pc' = IF config.parallel /\ Len(targets) > 1
             THEN "par_submit" ELSE "seq_loop"
    /\ UNCHANGED <<profiles, prof, stop_event, targets, config, task, calls,
                   callbacks>>
    /\ UNCHANGED <<aliased, at_start, runs, test, ran_on, profile,
                   profiles_override>>

\* Variant: "if not self._stop_event.is_set(): on_complete(result)".
on_complete_unless_stopped ==
    /\ pc = "complete"
    /\ callbacks' = IF stop_event THEN callbacks
                    ELSE Append(callbacks,
                                [cb |-> "complete", result |-> result])
    /\ pc' = "done"
    /\ UNCHANGED <<profiles, prof, stop_event, targets, config, total, idx,
                   completed, joined, result, task, calls>>
    /\ ran_on' = ran_on \cup {<<"on_complete", Orchestrator>>}
    /\ UNCHANGED <<aliased, at_start, runs, test, profile,
                   profiles_override>>

\* _run_scan's last statement: on_complete(result).
on_complete ==
    /\ pc = "complete"
    /\ callbacks' = Append(callbacks, [cb |-> "complete", result |-> result])
    /\ pc' = "done"
    /\ UNCHANGED <<profiles, prof, stop_event, targets, config, total, idx,
                   completed, joined, result, task, calls>>
    /\ ran_on' = ran_on \cup {<<"on_complete", Orchestrator>>}
    /\ UNCHANGED <<aliased, at_start, runs, test, profile,
                   profiles_override>>

\* ---------------------------------------------------------------------
\* _scan_single(profile, config), one step per blocking client call
\* ---------------------------------------------------------------------

\* Variant: the except clause sets the status and forgets error_message.
CaughtWithoutMessage(p, e) ==
    /\ prof' = [prof EXCEPT ![p].status = "Error"]
    /\ task' = [task EXCEPT ![p].pc = "returned", ![p].exc = e,
                            ![p].ret = NoInventory]

\* Either except clause, with e = str(exception): status ERROR,
\* error_message = str(e), return None.
Caught(p, e) ==
    /\ prof' = [prof EXCEPT ![p].status = "Error", ![p].error_message = e]
    /\ task' = [task EXCEPT ![p].pc = "returned", ![p].exc = e,
                            ![p].ret = NoInventory]

\* The client call op raises inside _scan_single's try block.
Failed(p, op) == Caught(p, ErrorText(op))

\* The stop check at entry, then status = SCANNING.
scan_entry(p) ==
    /\ task[p].pc = "entry"
    /\ IF stop_event
       THEN /\ prof' = [prof EXCEPT ![p].status = "Skipped"]
            /\ task' = [task EXCEPT ![p].pc = "returned",
                                    ![p].ret = NoInventory]
       ELSE /\ prof' = [prof EXCEPT ![p].status = "Scanning"]
            /\ task' = [task EXCEPT ![p].pc = "connect"]
    /\ UNCHANGED <<profiles, stop_event, pc, targets, config, total, idx,
                   completed, joined, result, calls, callbacks>>
    /\ UNCHANGED <<aliased, at_start, runs, test, ran_on, profile,
                   profiles_override>>

\* svc.connect(...): returns, or raises.
scan_connect(p) ==
    /\ task[p].pc = "connect"
    /\ calls' = [calls EXCEPT ![p].connect = @ + 1]
    /\ \/ /\ task' = [task EXCEPT ![p].pc = "extract", ![p].cat = 1]
          /\ UNCHANGED prof
       \/ Failed(p, "connect")
    /\ UNCHANGED <<profiles, stop_event, pc, targets, config, total, idx,
                   completed, joined, result, callbacks>>
    /\ UNCHANGED <<aliased, at_start, runs, test, ran_on, profile,
                   profiles_override>>

\* After category c: on to the next one, or to svc.disconnect().
AfterExtract(t, c, recs) ==
    [t EXCEPT !.inventory = [@ EXCEPT ![Cats[c]] = recs],
              !.cat = c + 1,
              !.pc = IF c = Len(Cats) THEN "disconnect" ELSE "extract"]

\* Variant: the flag is tested again before every extraction, and a scan
\* that finds it set gives up as a skipped one.
scan_extract_unless_stopped(p) ==
    /\ task[p].pc = "extract"
    /\ LET c == task[p].cat IN
       IF stop_event
       THEN /\ prof' = [prof EXCEPT ![p].status = "Skipped"]
            /\ task' = [task EXCEPT ![p].pc = "returned",
                                    ![p].ret = NoInventory]
            /\ UNCHANGED calls
       ELSE IF Include(config, c)
       THEN /\ calls' = [calls EXCEPT ![p].extract[c] = @ + 1]
            /\ \/ /\ task' = [task EXCEPT
                                ![p] = AfterExtract(@, c, Extracted(p, c))]
                  /\ UNCHANGED prof
               \/ Failed(p, "extract_" \o Cats[c])
       ELSE /\ task' = [task EXCEPT ![p] = AfterExtract(@, c, <<>>)]
            /\ UNCHANGED <<prof, calls>>
    /\ UNCHANGED <<profiles, stop_event, pc, targets, config, total, idx,
                   completed, joined, result, callbacks>>
    /\ UNCHANGED <<aliased, at_start, runs, test, ran_on, profile,
                   profiles_override>>

\* x = svc.extract_x() if config.include_x else []
\* for the category the scan has reached: the call returns, or raises.
scan_extract(p) ==
    /\ task[p].pc = "extract"
    /\ LET c == task[p].cat IN
       IF Include(config, c)
       THEN /\ calls' = [calls EXCEPT ![p].extract[c] = @ + 1]
            /\ \/ /\ task' = [task EXCEPT
                                ![p] = AfterExtract(@, c, Extracted(p, c))]
                  /\ UNCHANGED prof
               \/ Failed(p, "extract_" \o Cats[c])
       ELSE /\ task' = [task EXCEPT ![p] = AfterExtract(@, c, <<>>)]
            /\ UNCHANGED <<prof, calls>>
    /\ UNCHANGED <<profiles, stop_event, pc, targets, config, total, idx,
                   completed, joined, result, callbacks>>
    /\ UNCHANGED <<aliased, at_start, runs, test, ran_on, profile,
                   profiles_override>>

\* Variant: _scan_single without its svc.disconnect() call.
scan_without_disconnect(p) ==
    /\ task[p].pc = "disconnect"
    /\ prof' = [prof EXCEPT ![p].status = "Done"]
    /\ task' = [task EXCEPT ![p].pc = "counts"]
    /\ UNCHANGED <<profiles, stop_event, pc, targets, config, total, idx,
                   completed, joined, result, calls, callbacks>>
    /\ UNCHANGED <<aliased, at_start, runs, test, ran_on, profile,
                   profiles_override>>

\* svc.disconnect(): inside the try, so a failure takes the except path.
\* On success: inventory = SimpleInventory(...); profile.status = DONE.
scan_disconnect(p) ==
    /\ task[p].pc = "disconnect"
    /\ calls' = [calls EXCEPT ![p].disconnect = @ + 1]
    /\ \/ /\ prof' = [prof EXCEPT ![p].status = "Done"]
          /\ task' = [task EXCEPT ![p].pc = "counts"]
       \/ Failed(p, "disconnect")
    /\ UNCHANGED <<profiles, stop_event, pc, targets, config, total, idx,
                   completed, joined, result, callbacks>>
    /\ UNCHANGED <<aliased, at_start, runs, test, ran_on, profile,
                   profiles_override>>

\* _tag_inventory(inventory, profile): source_name on every record.
TagSeq(recs, source) ==
    [i \in 1..Len(recs) |-> [recs[i] EXCEPT !.source_name = source]]

\* Variant: the loop over the networks is missing.
tag_inventory_without_networks(inventory, p) ==
    [c \in DOMAIN inventory |->
        IF c = "networks" THEN inventory[c]
        ELSE TagSeq(inventory[c], DisplayName(p))]

tag_inventory(inventory, p) ==
    [c \in DOMAIN inventory |-> TagSeq(inventory[c], DisplayName(p))]

\* Variant: hosts_found is taken from the VM list.
CountedFromVms(pr, inventory) ==
    [pr EXCEPT !.vms_found = Len(inventory.virtual_machines),
               !.hosts_found = Len(inventory.virtual_machines),
               !.datastores_found = Len(inventory.datastores)]

\* profile.vms_found = len(...), hosts_found, datastores_found.
Counted(pr, inventory) ==
    [pr EXCEPT !.vms_found = Len(inventory.virtual_machines),
               !.hosts_found = Len(inventory.hosts),
               !.datastores_found = Len(inventory.datastores)]

\* The found counts, the tagging and "return inventory".
scan_finish(p) ==
    /\ task[p].pc = "counts"
    /\ prof' = [prof EXCEPT ![p] = Counted(@, task[p].inventory)]
    /\ task' = [task EXCEPT ![p].pc = "returned",
                            ![p].ret = tag_inventory(task[p].inventory, p)]
    /\ UNCHANGED <<profiles, stop_event, pc, targets, config, total, idx,
                   completed, joined, result, calls, callbacks>>
    /\ UNCHANGED <<aliased, at_start, runs, test, ran_on, profile,
                   profiles_override>>

scan_single(p) ==
    \/ scan_entry(p)
    \/ scan_connect(p)
    \/ scan_extract(p)
    \/ scan_disconnect(p)
    \/ scan_finish(p)

\* ---------------------------------------------------------------------
\* _scan_sequential
\* ---------------------------------------------------------------------

\* Variant: the loop without "if self._stop_event.is_set(): break".
seq_loop_without_stop_check ==
    /\ pc = "seq_loop"
    /\ IF idx >= Len(targets)
       THEN /\ pc' = "complete"
            /\ UNCHANGED <<task, calls, callbacks, profile,
                   profiles_override>>
       ELSE LET p == targets[idx + 1] IN
            /\ profile' = p
            /\ IF total = 0
               THEN /\ pc' = "crashed"
                    /\ UNCHANGED <<task, calls, callbacks>>
               ELSE /\ callbacks' = Emit(p, "connecting", Pct(idx, total),
                                         0, 0, "")
                    /\ task' = [task EXCEPT
                                  ![p] = [NoTask EXCEPT !.pc = "entry"]]
                    /\ calls' = [calls EXCEPT ![p] = NoCalls]
                    /\ pc' = "seq_scan"
    /\ UNCHANGED <<profiles, prof, stop_event, targets, config, total, idx,
                   completed, joined, result>>
    /\ ran_on' = IF callbacks' # callbacks
                 THEN ran_on \cup {<<"on_progress", Orchestrator>>}
                 ELSE ran_on
    /\ UNCHANGED <<aliased, at_start, runs, test, profiles_override>>

\* Loop head: the for loop ends (the list iterator finds no element at
\* position idx of the list as it is now), or the stop check breaks out of
\* it, or the start event is emitted and _scan_single is entered.  With
\* total = 0 (the list has grown since _run_scan read its length) idx / total
\* raises ZeroDivisionError, which nothing catches: the orchestrator thread
\* ends without a completion callback.
seq_loop ==
    /\ pc = "seq_loop"
    /\ IF idx >= Len(targets) \/ stop_event
       THEN /\ pc' = "complete"
            /\ UNCHANGED <<task, calls, callbacks, profile,
                   profiles_override>>
       ELSE LET p == targets[idx + 1] IN
            /\ profile' = p
            /\ IF total = 0
               THEN /\ pc' = "crashed"
                    /\ UNCHANGED <<task, calls, callbacks>>
               ELSE /\ callbacks' = Emit(p, "connecting", Pct(idx, total),
                                         0, 0, "")
                    /\ task' = [task EXCEPT
                                  ![p] = [NoTask EXCEPT !.pc = "entry"]]
                    /\ calls' = [calls EXCEPT ![p] = NoCalls]
                    /\ pc' = "seq_scan"
    /\ UNCHANGED <<profiles, prof, stop_event, targets, config, total, idx,
                   completed, joined, result>>
    /\ ran_on' = IF callbacks' # callbacks
                 THEN ran_on \cup {<<"on_progress", Orchestrator>>}
                 ELSE ran_on
    /\ UNCHANGED <<aliased, at_start, runs, test, profiles_override>>

\* Variant: a failed scan ends the loop (as a propagating exception would).
seq_record_abort ==
    /\ pc = "seq_scan"
    /\ LET p == profile IN
       /\ task[p].pc = "returned"
       /\ IF task[p].ret = NoInventory
          THEN /\ pc' = "complete"
               /\ UNCHANGED <<result, callbacks, idx>>
          ELSE /\ result' = Recorded(result, p, task[p].ret)
               /\ callbacks' = EmitOutcome(p, task[p].ret,
                                           Pct(idx + 1, total))
               /\ idx' = idx + 1
               /\ pc' = "seq_loop"
    /\ UNCHANGED <<profiles, prof, stop_event, targets, config, total,
                   completed, joined, task, calls>>
    /\ ran_on' = IF result' # result
                 THEN ran_on \cup {<<"append", Orchestrator>>,
                                    <<"on_progress", Orchestrator>>}
                 ELSE ran_on
    /\ UNCHANGED <<aliased, at_start, runs, test, profile,
                   profiles_override>>

\* _scan_single has returned: bookkeeping and the outcome event at pct_end.
seq_record ==
    /\ pc = "seq_scan"
    /\ LET p == profile IN
       /\ task[p].pc = "returned"
       /\ result' = Recorded(result, p, task[p].ret)
       /\ callbacks' = EmitOutcome(p, task[p].ret, Pct(idx + 1, total))
    /\ idx' = idx + 1
    /\ pc' = "seq_loop"
    /\ UNCHANGED <<profiles, prof, stop_event, targets, config, total,
                   completed, joined, task, calls>>
    /\ ran_on' = ran_on \cup {<<"append", Orchestrator>>,
                             <<"on_progress", Orchestrator>>}
    /\ UNCHANGED <<aliased, at_start, runs, test, profile,
                   profiles_override>>

\* ---------------------------------------------------------------------
\* _scan_parallel
\* ---------------------------------------------------------------------

Min(a, b) == IF a <= b THEN a ELSE b

\* Variant: ThreadPoolExecutor(max_workers=total).
PoolSizeIsTotal == total

\* ThreadPoolExecutor(max_workers=min(config.max_workers, total))
PoolSize == Min(config.max_workers, total)

\* The single-source scans a thread is executing right now.
InFlight ==
    {p \in Ids : task[p].pc \in
        {"entry", "connect", "extract", "disconnect", "counts"}}

\* Variant: the submit loop without its emit(...).
par_submit_silent ==
    /\ pc = "par_submit"
    /\ PoolSize > 0
    /\ IF idx < Len(targets)
       THEN LET p == targets[idx + 1] IN
            /\ task' = [task EXCEPT ![p] = [NoTask EXCEPT !.pc = "queued"]]
            /\ calls' = [calls EXCEPT ![p] = NoCalls]
            /\ idx' = idx + 1
            /\ UNCHANGED <<pc, callbacks>>
       ELSE /\ pc' = "par_join"
            /\ UNCHANGED <<task, calls, callbacks, idx>>
    /\ UNCHANGED <<profiles, prof, stop_event, targets, config, total,
                   completed, joined, result>>
    /\ UNCHANGED <<aliased, at_start, runs, test, ran_on, profile,
                   profiles_override>>

\* ThreadPoolExecutor(max_workers=...) raises ValueError when max_workers
\* is not positive.  _scan_parallel and _run_scan catch nothing, so the
\* orchestrator thread ends here, without a completion callback.
pool_rejects ==
    /\ pc = "par_submit"
    /\ PoolSize <= 0
    /\ pc' = "crashed"
    /\ ran_on' = ran_on \cup {<<"orchestration failure", Orchestrator>>}
    /\ UNCHANGED <<profiles, prof, stop_event, targets, config, total, idx,
                   completed, joined, result, task, calls, callbacks,
                   aliased, at_start, runs, test, profile,
                   profiles_override>>

\* Variant: the loop only submits, and the enqueued events of all profiles
\* are emitted after it.
par_submit_then_enqueue ==
    /\ pc = "par_submit"
    /\ PoolSize > 0
    /\ IF idx < Len(targets)
       THEN LET p == targets[idx + 1] IN
            /\ task' = [task EXCEPT ![p] = [NoTask EXCEPT !.pc = "queued"]]
            /\ calls' = [calls EXCEPT ![p] = NoCalls]
            /\ idx' = idx + 1
            /\ UNCHANGED <<pc, callbacks>>
       ELSE /\ pc' = "par_join"
            /\ callbacks' =
                  callbacks \o
                  [i \in 1..Len(targets) |->
                      [cb |-> "progress", profile_id |-> targets[i],
                       profile_name |-> DisplayName(targets[i]),
                       status |-> prof[targets[i]].status,
                       message |-> "enqueued", progress_pct |-> Pct(0, 1),
                       vms_found |-> 0, hosts_found |-> 0, error |-> ""]]
            /\ UNCHANGED <<task, calls, idx>>
    /\ UNCHANGED <<profiles, prof, stop_event, targets, config, total,
                   completed, joined, result>>
    /\ ran_on' = IF callbacks' # callbacks
                 THEN ran_on \cup {<<"on_progress", Orchestrator>>}
                 ELSE ran_on
    /\ UNCHANGED <<aliased, at_start, runs, test, profile,
                   profiles_override>>

\* The submit loop (inside the with block, so once the pool exists): the
\* enqueued event at 0, then executor.submit(...).
par_submit ==
    /\ pc = "par_submit"
    /\ PoolSize > 0
    /\ IF idx < Len(targets)
       THEN LET p == targets[idx + 1] IN
            /\ callbacks' = Emit(p, "enqueued", Pct(0, 1), 0, 0, "")
            /\ task' = [task EXCEPT ![p] = [NoTask EXCEPT !.pc = "queued"]]
            /\ calls' = [calls EXCEPT ![p] = NoCalls]
            /\ idx' = idx + 1
            /\ UNCHANGED pc
       ELSE /\ pc' = "par_join"
            /\ UNCHANGED <<task, calls, callbacks, idx>>
    /\ UNCHANGED <<profiles, prof, stop_event, targets, config, total,
                   completed, joined, result>>
    /\ ran_on' = IF callbacks' # callbacks
                 THEN ran_on \cup {<<"on_progress", Orchestrator>>}
                 ELSE ran_on
    /\ UNCHANGED <<aliased, at_start, runs, test, profile,
                   profiles_override>>

\* A pool worker takes a queued task; the pool has PoolSize workers.
worker_start(p) ==
    /\ task[p].pc = "queued"
    /\ Cardinality(InFlight) < PoolSize
    /\ task' = [task EXCEPT ![p].pc = "entry"]
    /\ UNCHANGED <<profiles, prof, stop_event, pc, targets, config, total,
                   idx, completed, joined, result, calls, callbacks>>
    /\ UNCHANGED <<aliased, at_start, runs, test, ran_on, profile,
                   profiles_override>>

\* Variant: pct is computed before "completed += 1".
par_join_pct_before_increment ==
    /\ pc = "par_join"
    /\ IF joined = {targets[i] : i \in 1..Len(targets)}
       THEN /\ pc' = "complete"
            /\ UNCHANGED <<completed, joined, result, callbacks>>
       ELSE \E p \in Ids \ joined :
            /\ task[p].pc = "returned"
            /\ completed' = completed + 1
            /\ joined' = joined \cup {p}
            /\ result' = Recorded(result, p, task[p].ret)
            /\ callbacks' = EmitOutcome(p, task[p].ret,
                                        Pct(completed, total))
            /\ UNCHANGED pc
    /\ UNCHANGED <<profiles, prof, stop_event, targets, config, total, idx,
                   task, calls>>
    /\ ran_on' = IF result' # result
                 THEN ran_on \cup {<<"append", Orchestrator>>,
                                    <<"on_progress", Orchestrator>>}
                 ELSE ran_on
    /\ UNCHANGED <<aliased, at_start, runs, test, profile,
                   profiles_override>>

\* Variant: the bookkeeping and the outcome event are done by the pool
\* worker that ran the task (as a done-callback of the future would be).
par_join_on_worker ==
    /\ pc = "par_join"
    /\ IF joined = {targets[i] : i \in 1..Len(targets)}
       THEN /\ pc' = "complete"
            /\ UNCHANGED <<completed, joined, result, callbacks>>
       ELSE \E p \in Ids \ joined :
            /\ task[p].pc = "returned"
            /\ completed' = completed + 1
            /\ joined' = joined \cup {p}
            /\ result' = Recorded(result, p, task[p].ret)
            /\ callbacks' = EmitOutcome(p, task[p].ret,
                                        Pct(completed + 1, total))
            /\ UNCHANGED pc
    /\ UNCHANGED <<profiles, prof, stop_event, targets, config, total, idx,
                   task, calls>>
    /\ ran_on' = IF result' # result
                 THEN ran_on \cup {<<"append", PoolWorker>>,
                                    <<"on_progress", PoolWorker>>}
                 ELSE ran_on
    /\ UNCHANGED <<aliased, at_start, runs, test, profile,
                   profiles_override>>

\* One iteration of "for future in as_completed(futures_map)", or the end
\* of the loop and of the with block once every future has been yielded.
par_join ==
    /\ pc = "par_join"
    /\ IF joined = {targets[i] : i \in 1..Len(targets)}
       THEN /\ pc' = "complete"
            /\ UNCHANGED <<completed, joined, result, callbacks>>
       ELSE \E p \in Ids \ joined :
            /\ task[p].pc = "returned"
            /\ completed' = completed + 1
            /\ joined' = joined \cup {p}
            /\ result' = Recorded(result, p, task[p].ret)
            /\ callbacks' = EmitOutcome(p, task[p].ret,
                                        Pct(completed + 1, total))
            /\ UNCHANGED pc
    /\ UNCHANGED <<profiles, prof, stop_event, targets, config, total, idx,
                   task, calls>>
    /\ ran_on' = IF result' # result
                 THEN ran_on \cup {<<"append", Orchestrator>>,
                                    <<"on_progress", Orchestrator>>}
                 ELSE ran_on
    /\ UNCHANGED <<aliased, at_start, runs, test, profile,
                   profiles_override>>

\* The steps of the ScanOrchestrator thread and of the pool workers.
ScanStep ==
    \/ run_scan
    \/ seq_loop
    \/ seq_record
    \/ par_submit
    \/ par_join
    \/ on_complete
    \/ \E p \in Ids : worker_start(p)
    \/ \E p \in Ids : scan_single(p)

Next ==
    \/ add_profile
    \/ stop_scan
    \/ start_scan
    \/ ScanStep

Spec == Init /\ [][Next]_vars

\* The client's calls return and the threads are scheduled.
FairSpec == Spec /\ WF_vars(ScanStep)

\* ---------------------------------------------------------------------
\* reset_all_statuses and the panel's scan button: one run after another
\* ---------------------------------------------------------------------

MaxRuns == 2

\* Variant: reset_status leaves error_message as it is.
reset_status_keeping_message(pr) == [pr EXCEPT !.status = "Pending"]

\* ConnectionProfile.reset_status: status back to Pending and the error
\* message dropped; the found counts stay until a scan overwrites them.
reset_status(pr) == [pr EXCEPT !.status = "Pending", !.error_message = ""]

\* for p in self.profiles: p.reset_status()
ResetAll ==
    [p \in Ids |-> IF InSeq(p, profiles) THEN reset_status(prof[p])
                   ELSE prof[p]]

\* ConnectionManager.reset_all_statuses
reset_all_statuses ==
    /\ prof' = ResetAll
    /\ UNCHANGED <<profiles, stop_event, pc, targets, config, total, idx,
                   completed, joined, result, task, calls, callbacks,
                   aliased, runs, test, at_start, ran_on, profile,
                   profiles_override>>

\* Variant: start_scan without self._stop_event.clear().
on_scan_without_clear ==
    /\ pc \in {"idle", "done"}
    /\ runs < MaxRuns
    /\ profiles # <<>>
    /\ prof' = ResetAll
    /\ \E cfg \in Configs : config' = cfg
    /\ targets' = profiles
    /\ aliased' = TRUE
    /\ at_start' = Found
    /\ runs' = runs + 1
    /\ pc' = "run"
    /\ callbacks' = <<>>
    /\ task' = [p \in Ids |-> NoTask]
    /\ calls' = [p \in Ids |-> NoCalls]
    /\ ran_on' = {}
    /\ profile' = 0
    /\ UNCHANGED <<profiles, stop_event, total, idx, completed, joined,
                   result, test>>
    /\ profiles_override' = NoOverride

\* MultiConnectionPanel._on_scan, the handler of the scan button (enabled
\* until a run is started and again once on_complete has been delivered):
\* nothing without profiles; else reset_all_statuses() and then
\* start_scan(config, on_progress, on_complete).  callbacks, task, calls,
\* profile and ran_on describe the run that starts here.
on_scan ==
    /\ pc \in {"idle", "done"}
    /\ runs < MaxRuns
    /\ profiles # <<>>
    /\ prof' = ResetAll
    /\ \E cfg \in Configs : config' = cfg
    /\ stop_event' = FALSE
    /\ targets' = profiles
    /\ aliased' = TRUE
    /\ at_start' = Found
    /\ runs' = runs + 1
    /\ pc' = "run"
    /\ callbacks' = <<>>
    /\ task' = [p \in Ids |-> NoTask]
    /\ calls' = [p \in Ids |-> NoCalls]
    /\ ran_on' = {}
    /\ profile' = 0
    /\ UNCHANGED <<profiles, total, idx, completed, joined, result, test>>
    /\ profiles_override' = NoOverride

RerunNext ==
    \/ add_profile
    \/ stop_scan
    \/ on_scan
    \/ ScanStep

\* Runs started from the panel, one after the other, on the same registry.
RerunSpec == Init /\ [][RerunNext]_vars

\* ---------------------------------------------------------------------
\* The registry's operations and test_connection, with no run in progress
\* ---------------------------------------------------------------------

\* Longest registry checked (the same profile may be in it more than once).
MaxRegistry == 2

\* ConnectionManager.add_profile(profile), for any profile object: one
\* that is not in the registry yet, or one that already is.
append_profile(p) ==
    /\ Len(profiles) < MaxRegistry
    /\ profiles' = Append(profiles, p)
    /\ targets' = IF aliased THEN Append(targets, p) ELSE targets
    /\ UNCHANGED <<prof, stop_event, pc, config, total, idx, completed,
                   joined, result, task, calls, callbacks, aliased, runs,
                   test, at_start, ran_on, profile,
                   profiles_override>>

\* ConnectionManager.remove_profile(profile_id): self.profiles is bound to
\* a new list, so a run that was given the old list keeps the old list.
remove_profile(p) ==
    /\ profiles' = SelectSeq(profiles, LAMBDA q : q # p)
    /\ aliased' = FALSE
    /\ UNCHANGED <<prof, stop_event, pc, targets, config, total, idx,
                   completed, joined, result, task, calls, callbacks, runs,
                   test, at_start, ran_on, profile,
                   profiles_override>>

\* ConnectionManager.clear_profiles: self.profiles.clear(), in place.
clear_profiles ==
    /\ profiles' = <<>>
    /\ targets' = IF aliased THEN <<>> ELSE targets
    /\ UNCHANGED <<prof, stop_event, pc, config, total, idx, completed,
                   joined, result, task, calls, callbacks, aliased, runs,
                   test, at_start, ran_on, profile,
                   profiles_override>>

\* The two except clauses of test_connection and the message each returns.
ExceptionKinds == {"VMwareConnectionError", "Exception"}

FailureMessage(kind, e) ==
    IF kind = "VMwareConnectionError" THEN "Error: " \o e
    ELSE "Error inesperado: " \o e

\* Variant: the except clause returns (False, msg) and leaves the status.
TestCaughtWithoutStatus(p, kind, op) ==
    /\ prof' = [prof EXCEPT ![p].error_message = ErrorText(op)]
    /\ test' = [test EXCEPT
                  ![p].pc = "returned",
                  ![p].calls[op] = @ + 1,
                  ![p].exc = ErrorText(op),
                  ![p].ret = <<FALSE, FailureMessage(kind, ErrorText(op))>>]

\* The client call op ("connect" or "disconnect") raises an exception of
\* the given kind in test_connection: the matching except clause sets
\* status ERROR and error_message = str(e) and returns (False, message).
TestCaught(p, kind, op) ==
    /\ prof' = [prof EXCEPT ![p].status = "Error",
                            ![p].error_message = ErrorText(op)]
    /\ test' = [test EXCEPT
                  ![p].pc = "returned",
                  ![p].calls[op] = @ + 1,
                  ![p].exc = ErrorText(op),
                  ![p].ret = <<FALSE, FailureMessage(kind, ErrorText(op))>>]

\* test_connection(profile) is called for a profile of the registry (the
\* one selected in the panel): profile.status = TESTING.
test_begin(p) ==
    /\ InSeq(p, profiles)
    /\ test[p].pc \in {"none", "returned"}
    /\ prof' = [prof EXCEPT ![p].status = "Testing"]
    /\ test' = [test EXCEPT ![p] = [NoTest EXCEPT !.pc = "connect"]]
    /\ UNCHANGED <<profiles, stop_event, pc, targets, config, total, idx,
                   completed, joined, result, task, calls, callbacks,
                   aliased, runs, at_start, ran_on, profile,
                   profiles_override>>

\* svc.connect(...) in test_connection: returns, or raises.
test_connect(p) ==
    /\ test[p].pc = "connect"
    /\ \/ /\ test' = [test EXCEPT ![p].pc = "disconnect",
                                  ![p].calls.connect = @ + 1]
          /\ UNCHANGED prof
       \/ \E kind \in ExceptionKinds :
             TestCaught(p, kind, "connect")
    /\ UNCHANGED <<profiles, stop_event, pc, targets, config, total, idx,
                   completed, joined, result, task, calls, callbacks,
                   aliased, runs, at_start, ran_on, profile,
                   profiles_override>>

\* svc.disconnect() in test_connection: returns, and then status = OK and
\* (True, message) is returned; or raises.
test_disconnect(p) ==
    /\ test[p].pc = "disconnect"
    /\ \/ /\ test' = [test EXCEPT
                        ![p].pc = "returned",
                        ![p].calls.disconnect = @ + 1,
                        ![p].ret = <<TRUE, "Conexion exitosa a "
                                            \o DisplayName(p)>>]
          /\ prof' = [prof EXCEPT ![p].status = "OK"]
       \/ \E kind \in ExceptionKinds :
             TestCaught(p, kind, "disconnect")
    /\ UNCHANGED <<profiles, stop_event, pc, targets, config, total, idx,
                   completed, joined, result, task, calls, callbacks,
                   aliased, runs, at_start, ran_on, profile,
                   profiles_override>>

test_connection(p) ==
    \/ test_begin(p)
    \/ test_connect(p)
    \/ test_disconnect(p)

RegistryNext ==
    \/ \E p \in Ids : append_profile(p)
    \/ \E p \in Ids : remove_profile(p)
    \/ clear_profiles
    \/ reset_all_statuses
    \/ \E p \in Ids : test_connection(p)

\* The registry's operations and connection tests, in any order.
RegistrySpec == Init /\ [][RegistryNext]_vars

\* ---------------------------------------------------------------------
\* A sequential run while the caller goes on using the registry
\* ---------------------------------------------------------------------

\* The configurations of these runs: sequential, every category enabled.
LiveConfigs ==
    {c \in Configs :
        /\ ~c.parallel /\ c.max_workers = 1
        /\ c.include_vms /\ c.include_hosts
        /\ c.include_datastores /\ c.include_networks}

\* The profiles_override arguments checked: None, and every list of up to
\* MaxRegistry profiles, the empty list included.
Overrides ==
    {NoOverride} \cup
    {[given |-> TRUE, list |-> l] :
        l \in UNION {[1..n -> Ids] : n \in 0..MaxRegistry}}

\* bool(profiles_override): None and the empty list are both false.
Truthy(override) == override.given /\ override.list # <<>>

\* ConnectionManager.start_scan(config, ..., profiles_override):
\* targets = profiles_override or self.profiles, so without a non-empty
\* override the run is handed the registry's own list object.
start_scan_override ==
    /\ pc = "idle"
    /\ \E cfg \in LiveConfigs : config' = cfg
    /\ stop_event' = FALSE
    /\ \E override \in Overrides :
          /\ profiles_override' = override
          /\ targets' = IF Truthy(override) THEN override.list ELSE profiles
          /\ aliased' = ~Truthy(override)
    /\ runs' = runs + 1
    /\ pc' = "run"
    /\ UNCHANGED <<profiles, prof, total, idx, completed, joined, result,
                   task, calls, callbacks, test, at_start, ran_on, profile>>

\* The steps of the ScanOrchestrator thread in a sequential run.
SeqStep ==
    \/ run_scan
    \/ seq_loop
    \/ seq_record
    \/ on_complete
    \/ \E p \in Ids : scan_single(p)

LiveNext ==
    \/ \E p \in Ids : append_profile(p)
    \/ \E p \in Ids : remove_profile(p)
    \/ clear_profiles
    \/ start_scan_override
    \/ SeqStep

\* One sequential run, on the registry or on an override list, with the
\* registry's operations called before, during and after it.
LiveSpec == Init /\ [][LiveNext]_vars

\* ---------------------------------------------------------------------
\* Runs with any worker count
\* ---------------------------------------------------------------------

\* ScanConfig objects with max_workers from 0 up (the dataclass and the
\* dialog's IntVar take any integer), every category enabled.
WorkerConfigs ==
    [parallel : BOOLEAN, max_workers : 0..MaxWorkers,
     include_vms : {TRUE}, include_hosts : {TRUE},
     include_datastores : {TRUE}, include_networks : {TRUE}]

\* ConnectionManager.start_scan with such a config: it clears the flag,
\* creates and starts the ScanOrchestrator thread and returns it; nothing
\* in it looks at the config.
start_scan_workers ==
    /\ pc = "idle"
    /\ \E cfg \in WorkerConfigs : config' = cfg
    /\ stop_event' = FALSE
    /\ targets' = profiles
    /\ aliased' = TRUE
    /\ runs' = runs + 1
    /\ pc' = "run"
    /\ UNCHANGED <<profiles, prof, total, idx, completed, joined, result,
                   task, calls, callbacks, test, at_start, ran_on, profile>>
    /\ profiles_override' = NoOverride

PoolNext ==
    \/ add_profile
    \/ stop_scan
    \/ start_scan_workers
    \/ pool_rejects
    \/ ScanStep

\* One run whose config may carry a worker count the pool rejects.
PoolSpec == Init /\ [][PoolNext]_vars

\* ---------------------------------------------------------------------
\* Tasks that raise instead of returning
\* ---------------------------------------------------------------------

\* The configurations of these runs: parallel, every category enabled.
RaiseConfigs ==
    {c \in Configs :
        /\ c.parallel
        /\ c.include_vms /\ c.include_hosts
        /\ c.include_datastores /\ c.include_networks}

start_scan_parallel ==
    /\ pc = "idle"
    /\ \E cfg \in RaiseConfigs : config' = cfg
    /\ stop_event' = FALSE
    /\ targets' = profiles
    /\ aliased' = TRUE
    /\ runs' = runs + 1
    /\ pc' = "run"
    /\ UNCHANGED <<profiles, prof, total, idx, completed, joined, result,
                   task, calls, callbacks, test, at_start, ran_on, profile>>
    /\ profiles_override' = NoOverride

\* str(e) of an exception that leaves _scan_single.
EscapedText == "unexpected failure"

\* An exception leaves _scan_single.  Its try block catches every Exception
\* raised by the client calls, so what leaves it is raised by an except
\* clause itself, at the logging call that follows the two assignments:
\* the client call op has failed, status and error_message are set, and
\* the task ends with the new exception instead of returning.
scan_raises(p) ==
    /\ task[p].pc \in {"connect", "extract", "disconnect"}
    /\ task[p].pc = "extract" => Include(config, task[p].cat)
    /\ LET op == IF task[p].pc = "extract"
                 THEN "extract_" \o Cats[task[p].cat] ELSE task[p].pc IN
       /\ calls' = [calls EXCEPT
                      ![p] = CASE task[p].pc = "connect" ->
                                    [@ EXCEPT !.connect = @ + 1]
                               [] task[p].pc = "disconnect" ->
                                    [@ EXCEPT !.disconnect = @ + 1]
                               [] OTHER ->
                                    [@ EXCEPT !.extract[task[p].cat] = @ + 1]]
       /\ prof' = [prof EXCEPT ![p].status = "Error",
                               ![p].error_message = ErrorText(op)]
       /\ task' = [task EXCEPT ![p].pc = "raised",
                               ![p].exc = EscapedText]
    /\ UNCHANGED <<profiles, stop_event, pc, targets, config, total, idx,
                   completed, joined, result, callbacks>>
    /\ UNCHANGED <<aliased, at_start, runs, test, ran_on, profile,
                   profiles_override>>

\* In _scan_sequential nothing catches what _scan_single raises: the
\* exception goes up through _run_scan and ends the orchestrator thread.
seq_scan_raised ==
    /\ pc = "seq_scan"
    /\ task[profile].pc = "raised"
    /\ pc' = "crashed"
    /\ UNCHANGED <<profiles, prof, stop_event, targets, config, total, idx,
                   completed, joined, result, task, calls, callbacks,
                   aliased, at_start, runs, test, ran_on, profile,
                   profiles_override>>

\* Variant: inventory = future.result() without the try / except.
par_join_uncaught ==
    /\ pc = "par_join"
    /\ \E p \in TargetSet \ joined : task[p].pc = "raised"
    /\ pc' = "crashed"
    /\ UNCHANGED <<profiles, prof, stop_event, targets, config, total, idx,
                   completed, joined, result, task, calls, callbacks,
                   aliased, at_start, runs, test, ran_on, profile,
                   profiles_override>>

\* One iteration of the join loop for a future whose result() raises:
\* the except clause sets status ERROR and error_message = str(e) and
\* inventory = None, then the failure bookkeeping and the outcome event.
par_join_caught ==
    /\ pc = "par_join"
    /\ \E p \in TargetSet \ joined :
          /\ task[p].pc = "raised"
          /\ completed' = completed + 1
          /\ joined' = joined \cup {p}
          /\ prof' = [prof EXCEPT ![p].status = "Error",
                                  ![p].error_message = task[p].exc]
          /\ result' = Recorded(result, p, NoInventory)
          /\ callbacks' =
                Append(callbacks,
                       [cb |-> "progress", profile_id |-> p,
                        profile_name |-> DisplayName(p), status |-> "Error",
                        message |-> "fail",
                        progress_pct |-> Pct(completed + 1, total),
                        vms_found |-> 0, hosts_found |-> 0,
                        error |-> task[p].exc])
    /\ ran_on' = ran_on \cup {<<"append", Orchestrator>>,
                             <<"on_progress", Orchestrator>>}
    /\ UNCHANGED <<profiles, stop_event, pc, targets, config, total, idx,
                   task, calls, aliased, at_start, runs, test, profile,
                   profiles_override>>

\* The steps of the threads of a run in which tasks may raise.
RaiseStep ==
    \/ ScanStep
    \/ \E p \in Ids : scan_raises(p)
    \/ seq_scan_raised
    \/ par_join_caught

RaiseNext ==
    \/ add_profile
    \/ stop_scan
    \/ start_scan_parallel
    \/ RaiseStep

\* One run with a parallel config in which single-source scans may raise;
\* the client's calls return and the threads are scheduled.
RaiseSpec == Init /\ [][RaiseNext]_vars /\ WF_vars(RaiseStep)

\* ---------------------------------------------------------------------
\* Connection tests and status resets while a run is in progress
\* ---------------------------------------------------------------------

\* MultiConnectionPanel._on_test for the selected profile p: the button
\* stays enabled during a run; each click starts a thread that runs
\* test_connection(p).  One click is followed.
on_test(p) ==
    \/ (\A q \in Ids : test[q].pc = "none") /\ test_begin(p)
    \/ test_connect(p)
    \/ test_disconnect(p)

\* reset_all_statuses can be called at any time as well.
PanelNext ==
    \/ add_profile
    \/ start_scan_parallel
    \/ reset_all_statuses
    \/ \E p \in Ids : on_test(p)
    \/ ScanStep

PanelSpec == Init /\ [][PanelNext]_vars

\* ---------------------------------------------------------------------
\* start_scan called again before the run in progress has finished
\* ---------------------------------------------------------------------

\* The orchestrator thread of the run is alive.
RunInProgress == pc \notin {"idle", "done", "crashed"}

\* ConnectionManager.start_scan called while a run is in progress: it does
\* not look for a live run, clears the manager's one _stop_event and starts
\* another ScanOrchestrator thread.  The variables of the run keep
\* describing the run that was in progress; the new thread's own steps are
\* not followed.
start_scan_again ==
    /\ RunInProgress
    /\ runs < MaxRuns
    /\ stop_event' = FALSE
    /\ runs' = runs + 1
    /\ UNCHANGED <<profiles, prof, pc, targets, config, total, idx,
                   completed, joined, result, task, calls, callbacks,
                   aliased, test, at_start, ran_on, profile,
                   profiles_override>>

OverlapNext ==
    \/ add_profile
    \/ stop_scan
    \/ start_scan
    \/ start_scan_again
    \/ ScanStep

\* One run, with stop_scan and a further start_scan called at any time.
OverlapSpec == Init /\ [][OverlapNext]_vars

\* ---------------------------------------------------------------------
\* Properties
\* ---------------------------------------------------------------------

\* The run uses _scan_parallel (known once _run_scan has read total).
ParallelRun == config.parallel /\ total > 1

Started == pc \notin {"idle", "run"}

ProgressEvents == SelectSeq(callbacks, LAMBDA e : e.cb = "progress")

EventsOf(p) == SelectSeq(ProgressEvents, LAMBDA e : e.profile_id = p)

CompleteCalls == {i \in 1..Len(callbacks) : callbacks[i].cb = "complete"}

\* The scan of p ran into an exception / returned an inventory.
ScanFailed(p) == task[p].pc = "returned" /\ task[p].exc # ""
ScanSucceeded(p) == task[p].pc = "returned" /\ task[p].ret # NoInventory

\* C1 (state part): on_complete is never invoked twice, it is the last
\* callback of the run, it carries the run's ConsolidatedResult, and the
\* orchestrator thread has ended exactly when it has been invoked.
C1_CompleteOnceAndLast ==
    /\ Cardinality(CompleteCalls) <= 1
    /\ \A i \in CompleteCalls :
          i = Len(callbacks) /\ callbacks[i].result = result
    /\ (pc = "done") <=> (CompleteCalls # {})

\* C1: every run started by start_scan invokes on_complete exactly once,
\* with that run's ConsolidatedResult and after every progress event of the
\* run, whatever the per-source outcomes and whether or not stop_scan is
\* called (the client's calls return and the threads are scheduled).
C1_OnCompleteExactlyOnce ==
    /\ []C1_CompleteOnceAndLast
    /\ (pc = "run") ~> (pc = "done")

\* C1 witness: a cancelled run with a failed and a succeeded source has
\* delivered its completion callback.
C1_Witness ==
    /\ pc = "done"
    /\ stop_event
    /\ Len(result.failed_profiles) > 0
    /\ Len(result.completed_profiles) > 0
    /\ callbacks[Len(callbacks)].cb = "complete"

\* C2: a failing source scan (connect or extraction failure) does not abort
\* the run, in either mode: at completion every failed target is in
\* failed_profiles with the failure's text as its error message (also in
\* its outcome event), every succeeded target's inventory is in
\* results_by_source under its id, and unless cancellation was requested
\* every target profile has been processed.
C2_FailureDoesNotAbortRun ==
    pc = "done" =>
       /\ \A p \in TargetSet :
             /\ ScanFailed(p) =>
                   /\ InSeq(p, result.failed_profiles)
                   /\ prof[p].error_message = task[p].exc
                   /\ \E i \in 1..Len(EventsOf(p)) :
                         /\ EventsOf(p)[i].message = "fail"
                         /\ EventsOf(p)[i].error = task[p].exc
             /\ ScanSucceeded(p) =>
                   /\ p \in DOMAIN result.results_by_source
                   /\ result.results_by_source[p] = task[p].ret
       /\ ~stop_event =>
             \A p \in TargetSet : ScanFailed(p) \/ ScanSucceeded(p)

\* C2 witness (scenario B): a parallel run over two profiles has ended,
\* the first profile's connect failed, the second one's inventory is in
\* results_by_source.
C2_Witness ==
    /\ pc = "done"
    /\ ParallelRun
    /\ Len(targets) = 2
    /\ task[targets[1]].exc = ErrorText("connect")
    /\ result.failed_profiles = <<targets[1]>>
    /\ targets[2] \in DOMAIN result.results_by_source

\* Target profiles for which no connection was attempted in this run.
NeverConnected == {p \in TargetSet : calls[p].connect = 0}

\* C3: len(completed_profiles) + len(failed_profiles) never exceeds N, at
\* completion it equals N minus the number of profiles skipped because of
\* cancellation, and a profile skipped before a connection was attempted
\* for it is in neither list.
C3_SkippedInNeitherList ==
    Started =>
       /\ Len(result.completed_profiles) + Len(result.failed_profiles)
             <= total
       /\ pc = "done" =>
             Len(result.completed_profiles) + Len(result.failed_profiles)
                = total - Cardinality(NeverConnected)
       /\ \A p \in TargetSet :
             prof[p].status = "Skipped" =>
                /\ ~InSeq(p, result.completed_profiles)
                /\ ~InSeq(p, result.failed_profiles)

\* C4: _scan_single never raises: when a client call fails, the scan
\* returns the None sentinel with status Error and error_message set to the
\* failure's text; what it returned tells success from failure (an
\* inventory exactly with status Done).
C4_FailureReturnsSentinel ==
    \A p \in Ids :
       /\ task[p].exc # "" =>
             /\ task[p].pc = "returned"
             /\ task[p].ret = NoInventory
             /\ prof[p].status = "Error"
             /\ prof[p].error_message = task[p].exc
       /\ task[p].pc = "returned" =>
             /\ task[p].ret # NoInventory <=> prof[p].status = "Done"
             /\ task[p].ret = NoInventory <=>
                   prof[p].status \in {"Error", "Skipped"}

\* C4 witness: an extraction failed after a successful connect.
C4_Witness ==
    \E p \in Ids :
       /\ task[p].exc = ErrorText("extract_hosts")
       /\ calls[p].connect = 1
       /\ task[p].ret = NoInventory
       /\ prof[p].status = "Error"

\* The ScanConfig toggle of category c, read off the config.
Toggle(c) ==
    <<config.include_vms, config.include_hosts, config.include_datastores,
      config.include_networks>>[c]

\* What the scan of p has extracted (tagged, once it has been returned).
Extractions(p) ==
    IF ScanSucceeded(p) THEN task[p].ret ELSE task[p].inventory

\* The scan of p has returned and its connect call succeeded.
ReturnedAfterConnect(p) ==
    /\ task[p].pc = "returned"
    /\ calls[p].connect = 1
    /\ task[p].exc # ErrorText("connect")

\* C5 as stated: in a single-source scan that connects successfully,
\* exactly the extraction operations whose toggle is enabled are invoked.
C5_ExactlyEnabledWheneverConnected ==
    \A p \in Ids : \A c \in 1..Len(Cats) :
       ReturnedAfterConnect(p) =>
          calls[p].extract[c] = (IF Toggle(c) THEN 1 ELSE 0)

\* C5 amended: a scan that connects invokes only enabled extraction
\* operations, each at most once; when none of them fails it has invoked
\* exactly the enabled ones, and its inventory has all four sequences,
\* empty for every disabled category.
C5_OnlyEnabledExtractions ==
    \A p \in Ids : \A c \in 1..Len(Cats) :
       /\ calls[p].extract[c] <= 1
       /\ calls[p].extract[c] = 1 => Toggle(c) /\ calls[p].connect = 1
       /\ (task[p].pc \in {"disconnect", "counts"} \/ ScanSucceeded(p)) =>
             /\ calls[p].extract[c] = (IF Toggle(c) THEN 1 ELSE 0)
             /\ DOMAIN Extractions(p) = {Cats[d] : d \in 1..Len(Cats)}
             /\ ~Toggle(c) => Extractions(p)[Cats[c]] = <<>>
             /\ Toggle(c) =>
                   Len(Extractions(p)[Cats[c]]) = RecordCount(p, c)

\* C5 witness (scenario D): VMs disabled, hosts enabled, on a source that
\* holds VMs and hosts: the returned inventory has no VM and all hosts.
C5_Witness ==
    \E p \in Ids :
       /\ ScanSucceeded(p)
       /\ ~config.include_vms /\ config.include_hosts
       /\ RecordCount(p, 1) > 0
       /\ task[p].ret.virtual_machines = <<>>
       /\ Len(task[p].ret.hosts) = RecordCount(p, 2)
       /\ RecordCount(p, 2) > 0
       /\ calls[p].extract = <<0, 1, 0, 1>>

\* The found counts of profile p equal the lengths of the sequences of inv.
CountsMatch(p, inv) ==
    /\ prof[p].vms_found = Len(inv.virtual_machines)
    /\ prof[p].hosts_found = Len(inv.hosts)
    /\ prof[p].datastores_found = Len(inv.datastores)

\* C6 as stated: whenever a profile's status is Done, its found counts
\* equal the lengths of the sequences its scan produced in this run.
C6_DoneCountsAlways ==
    \A p \in Ids :
       prof[p].status = "Done" => CountsMatch(p, task[p].inventory)

\* C6 amended: whenever a profile's status is Done and the scan that set it
\* has returned, its found counts equal the lengths of the sequences of the
\* inventory that scan returned (and of the one stored for it in
\* results_by_source); its outcome event carries these counts.
C6_DoneCountsAfterReturn ==
    \A p \in Ids :
       (prof[p].status = "Done" /\ task[p].pc = "returned") =>
          /\ task[p].ret # NoInventory
          /\ CountsMatch(p, task[p].ret)
          /\ p \in DOMAIN result.results_by_source =>
                CountsMatch(p, result.results_by_source[p])
          /\ \A i \in 1..Len(EventsOf(p)) :
                EventsOf(p)[i].message = "ok" =>
                   /\ EventsOf(p)[i].vms_found = Len(task[p].ret.virtual_machines)
                   /\ EventsOf(p)[i].hosts_found = Len(task[p].ret.hosts)

\* C6 witness: a Done profile whose scan returned VMs and hosts in
\* different numbers.
C6_Witness ==
    \E p \in Ids :
       /\ prof[p].status = "Done"
       /\ task[p].pc = "returned"
       /\ prof[p].vms_found > 0
       /\ prof[p].hosts_found > 0
       /\ prof[p].vms_found # prof[p].hosts_found
       /\ p \in DOMAIN result.results_by_source

\* Every record of inv is a record of source p tagged with p's name.
TaggedFor(inv, p) ==
    \A c \in DOMAIN inv : \A i \in 1..Len(inv[c]) :
       /\ inv[c][i].origin = p
       /\ inv[c][i].source_name = DisplayName(p)

\* C7: every record in the four sequences of the inventory a successful
\* scan returns, and of every inventory stored in results_by_source,
\* carries the display name of the profile it was extracted from, in
\* sequential and in parallel runs.
C7_RecordsTaggedWithOwnSource ==
    /\ \A p \in Ids : ScanSucceeded(p) => TaggedFor(task[p].ret, p)
    /\ \A p \in DOMAIN result.results_by_source :
          TaggedFor(result.results_by_source[p], p)

\* C7 witness: a parallel run stored the inventories of two sources, with
\* records that carry different source names.
C7_Witness ==
    /\ ParallelRun
    /\ DOMAIN result.results_by_source = {1, 2}
    /\ Len(result.results_by_source[1].networks) > 0
    /\ Len(result.results_by_source[2].virtual_machines) > 0
    /\ result.results_by_source[1].networks[1].source_name
          # result.results_by_source[2].virtual_machines[1].source_name

\* The run uses _scan_sequential.
SequentialRun == Started /\ ~ParallelRun

\* C8: in sequential mode the percentages of successive progress events
\* never decrease, only the outcome event of the last target profile
\* carries 100, and that event ends a run over at least one profile in
\* which cancellation was not requested.
C8_SequentialPercentages ==
    SequentialRun =>
       LET ev == ProgressEvents IN
       /\ \A i, j \in 1..Len(ev) :
             i < j => PctLeq(ev[i].progress_pct, ev[j].progress_pct)
       /\ \A i \in 1..Len(ev) :
             PctIs(ev[i].progress_pct, 100) =>
                /\ ev[i].message \in {"ok", "fail"}
                /\ ev[i].profile_id = targets[Len(targets)]
                /\ i = 2 * Len(targets)
       /\ (pc = "done" /\ ~stop_event /\ Len(targets) > 0) =>
             /\ Len(ev) = 2 * Len(targets)
             /\ PctIs(ev[Len(ev)].progress_pct, 100)

\* C8 witness: a sequential run over two profiles ended without
\* cancellation; its events carry 0, 50, 50 and 100.
C8_Witness ==
    /\ SequentialRun
    /\ pc = "done"
    /\ ~stop_event
    /\ Len(ProgressEvents) = 4
    /\ PctIs(ProgressEvents[2].progress_pct, 50)
    /\ PctIs(ProgressEvents[3].progress_pct, 50)
    /\ PctIs(ProgressEvents[4].progress_pct, 100)

\* C9: in parallel mode the number of single-source scans in flight never
\* exceeds min(config.max_workers, N).
C9_InFlightBounded ==
    (Started /\ ParallelRun) =>
       Cardinality(InFlight) <= Min(config.max_workers, Len(targets))

\* C9 witness: with max_workers = 1 and two targets, one scan is in flight
\* and the other task waits in the pool's queue.
C9_Witness ==
    /\ ParallelRun
    /\ config.max_workers < Len(targets)
    /\ Cardinality(InFlight) = config.max_workers
    /\ \E p \in TargetSet : task[p].pc = "queued"

\* C10: in a parallel run every target profile gets an enqueued event at 0
\* and then one outcome event, and no other progress event; once the join
\* loop has ended every target profile has both.
C10_EnqueuedThenOutcome ==
    (Started /\ ParallelRun) =>
       \A p \in TargetSet :
          LET ev == EventsOf(p) IN
          /\ Len(ev) <= 2
          /\ Len(ev) >= 1 =>
                ev[1].message = "enqueued" /\ PctIs(ev[1].progress_pct, 0)
          /\ Len(ev) = 2 => ev[2].message \in {"ok", "fail"}
          /\ task[p].pc # "none" => Len(ev) >= 1
          /\ pc \in {"complete", "done"} => Len(ev) = 2

\* C10 witness: a parallel run has ended in which the task submitted second
\* finished first.
C10_Witness ==
    /\ ParallelRun
    /\ pc = "done"
    /\ Len(ProgressEvents) = 4
    /\ ProgressEvents[3].profile_id = targets[2]
    /\ ProgressEvents[4].profile_id = targets[1]

\* Sum of f[p] over the profiles of the sequence s.
RECURSIVE SeqSum(_, _)
SeqSum(f, s) == IF s = <<>> THEN 0 ELSE f[Head(s)] + SeqSum(f, Tail(s))

\* C11: at every point of a run total_vms, total_hosts and total_datastores
\* equal the sums, over the sources recorded as completed, of the lengths of
\* the sequence each source's scan returned (which are the source's found
\* counts), and has_data is true exactly when at least one source's
\* inventory has been stored.
C11_TotalsAreSums ==
    Started =>
       LET done == result.completed_profiles IN
       /\ total_vms(result) =
             SeqSum([p \in Ids |-> Len(task[p].ret.virtual_machines)], done)
       /\ total_hosts(result) =
             SeqSum([p \in Ids |-> Len(task[p].ret.hosts)], done)
       /\ total_datastores(result) =
             SeqSum([p \in Ids |-> Len(task[p].ret.datastores)], done)
       /\ total_vms(result) = SeqSum([p \in Ids |-> prof[p].vms_found], done)
       /\ total_hosts(result) =
             SeqSum([p \in Ids |-> prof[p].hosts_found], done)
       /\ has_data(result) <=> done # <<>>
       /\ has_data(result) <=> \E p \in TargetSet :
                                  ScanSucceeded(p) /\ InSeq(p, done)
       /\ pc = "done" =>
             (has_data(result) <=> \E p \in TargetSet : ScanSucceeded(p))

\* C11 witness: two sources with different numbers of VMs and of hosts are
\* stored; the totals add them up.
C11_Witness ==
    /\ pc = "done"
    /\ Len(result.completed_profiles) = 2
    /\ has_data(result)
    /\ total_vms(result) = RecordCount(1, 1) + RecordCount(2, 1)
    /\ total_hosts(result) = RecordCount(1, 2) + RecordCount(2, 2)
    /\ total_vms(result) # total_hosts(result)
    /\ total_datastores(result) = RecordCount(1, 3) + RecordCount(2, 3)

\* C11 witness (no successful source): a run over two profiles has ended
\* with both failed; has_data is false and the totals are 0.
C11_WitnessNoData ==
    /\ pc = "done"
    /\ Len(result.failed_profiles) = 2
    /\ ~has_data(result)
    /\ total_vms(result) = 0

\* The single-source scan of p was carried out in the current run: a
\* connection was attempted for it.
Processed(p) == task[p].pc = "returned" /\ calls[p].connect = 1

\* C12 (state part): a profile is skipped only while the flag is set, and a
\* run that ends with the flag clear has processed every target profile.
C12_SkippedOnlyWhileFlagSet ==
    /\ \A p \in Ids : prof[p].status = "Skipped" => stop_event
    /\ (pc = "done" /\ ~stop_event) => \A p \in TargetSet : Processed(p)

\* C12: the cancellation flag is clear when start_scan returns, whatever
\* stop_scan calls came before it, and it is only set again by a stop_scan
\* call (a step that changes nothing else); so a stop_scan issued before
\* start_scan never causes a profile of the new run to be skipped.
C12_FlagClearedAtStart ==
    /\ []C12_SkippedOnlyWhileFlagSet
    /\ [][runs' # runs => ~stop_event']_vars
    /\ [][(stop_event' /\ ~stop_event) =>
             UNCHANGED <<profiles, prof, pc, targets, config, total, idx,
                         completed, joined, result, task, calls, callbacks,
                         aliased, runs, test, at_start, ran_on, profile,
                   profiles_override>>]_vars

\* C12 witness: the second run of the panel was started while the flag was
\* still set from a stop_scan before it, and it has processed both profiles.
C12_Witness ==
    /\ runs = 2
    /\ at_start.stop
    /\ pc = "done"
    /\ ~stop_event
    /\ Len(targets) = 2
    /\ \A p \in TargetSet : Processed(p)

\* The progress events of p carry no error text but the one of the failure
\* of p's scan in the current run, and no counts but the ones of the
\* inventory that scan returned.
EventsFromThisRun(p) ==
    \A i \in 1..Len(EventsOf(p)) :
       LET e == EventsOf(p)[i] IN
       /\ e.error \in {"", task[p].exc}
       /\ IF e.message = "ok"
          THEN /\ e.vms_found = Len(task[p].ret.virtual_machines)
               /\ e.hosts_found = Len(task[p].ret.hosts)
          ELSE e.vms_found = 0 /\ e.hosts_found = 0

C13_TestCallsAndResult ==
    \A p \in Ids :
       /\ test[p].calls.extract = <<0, 0, 0, 0>>
       /\ test[p].calls.connect <= 1
       /\ test[p].calls.disconnect <= 1
       /\ test[p].calls.disconnect = 1 =>
             test[p].calls.connect = 1 /\ test[p].exc # ErrorText("connect")
       /\ test[p].exc # "" =>
             /\ test[p].pc = "returned"
             /\ ~test[p].ret[1]
             /\ \E kind \in ExceptionKinds :
                   test[p].ret[2] = FailureMessage(kind, test[p].exc)
       /\ test[p].pc = "returned" =>
             /\ test[p].calls.connect = 1
             /\ test[p].ret[1] <=> test[p].exc = ""
             /\ test[p].ret[1] => test[p].calls.disconnect = 1

\* C13: test_connection never lets an exception escape.  It sets the status
\* to Testing when it begins, connects and then disconnects without any
\* extraction, and when it returns the profile's status is OK and the
\* result (True, message), or the status is Error, error_message is the
\* exception's text and the result (False, message).
C13_TestConnectionOutcome ==
    /\ []C13_TestCallsAndResult
    /\ [][\A p \in Ids :
            /\ (test[p].pc # "connect" /\ test'[p].pc = "connect") =>
                  prof'[p].status = "Testing"
            /\ (test[p].pc # "returned" /\ test'[p].pc = "returned") =>
                  IF test'[p].ret[1]
                  THEN prof'[p].status = "OK"
                  ELSE /\ prof'[p].status = "Error"
                       /\ prof'[p].error_message = test'[p].exc
                       /\ test'[p].exc # ""]_vars

\* C13 witness: a test whose disconnect call raised has returned
\* (False, message) and left the profile in Error with the exception's text.
C13_Witness ==
    \E p \in Ids :
       /\ test[p].pc = "returned"
       /\ test[p].exc = ErrorText("disconnect")
       /\ test[p].calls.connect = 1
       /\ test[p].ret = <<FALSE, FailureMessage("Exception", test[p].exc)>>
       /\ prof[p].status = "Error"
       /\ prof[p].error_message = ErrorText("disconnect")

\* C14: after any sequence of add_profile, remove_profile, clear_profiles
\* and reset_all_statuses calls the registry holds at most one profile per
\* identifier.
C14_OneProfilePerId ==
    \A i, j \in 1..Len(profiles) : profiles[i] = profiles[j] => i = j

\* C15: within one run an entry of results_by_source is never overwritten:
\* each profile identifier is written (and appended to completed_profiles)
\* at most once, whatever target list the run is given.
C15_WrittenAtMostOnce ==
    \A i, j \in 1..Len(result.completed_profiles) :
       result.completed_profiles[i] = result.completed_profiles[j] => i = j

\* C17: every progress event carries a percentage between 0 and 100, under
\* any interleaving of the run with the registry's operations.
C17_PctWithinBounds ==
    \A i \in 1..Len(ProgressEvents) :
       /\ PctLeq(Pct(0, 1), ProgressEvents[i].progress_pct)
       /\ PctLeq(ProgressEvents[i].progress_pct, Pct(1, 1))

\* C19: a failure of the orchestration logic (such as a max_workers value
\* the pool rejects) is raised in the caller, inside start_scan, before any
\* worker is dispatched: it never happens on the orchestrator thread of a
\* run that start_scan has already started.
C19_FailsSynchronously ==
    /\ \A r \in ran_on : r[1] = "orchestration failure" => r[2] = Caller
    /\ pc # "crashed"

\* The operations recorded in ran_on.
RanOps == {r[1] : r \in ran_on}

\* C18: every on_progress and on_complete invocation and every append to
\* the ConsolidatedResult happens on the run's orchestrator thread, never on
\* the thread that called start_scan and never on a pool worker, in
\* sequential and in parallel runs.
C18_CallbacksOnOrchestrator ==
    /\ \A r \in ran_on :
          /\ r[1] \in {"on_progress", "on_complete", "append"}
          /\ r[2] = Orchestrator
          /\ r[2] \notin {Caller, PoolWorker}
    /\ "on_progress" \in RanOps <=> Len(ProgressEvents) > 0
    /\ "on_complete" \in RanOps <=> CompleteCalls # {}
    /\ "append" \in RanOps <=>
          Len(result.completed_profiles) + Len(result.failed_profiles) > 0

\* C18 witness: a parallel run, whose scans ran on pool workers, has ended
\* with a stored and a failed source and all its callbacks delivered.
C18_Witness ==
    /\ ParallelRun
    /\ pc = "done"
    /\ Len(result.completed_profiles) = 1
    /\ Len(result.failed_profiles) = 1
    /\ Len(ProgressEvents) = 4
    /\ ran_on = {<<"on_progress", Orchestrator>>, <<"append", Orchestrator>>,
                 <<"on_complete", Orchestrator>>}

\* The connections of this run that are open: connect has returned and
\* disconnect has not been called.
OpenConnections ==
    {p \in Ids : /\ calls[p].connect = 1
                 /\ task[p].pc # "none"
                 /\ task[p].exc # ErrorText("connect")
                 /\ calls[p].disconnect = 0}

\* The connections a scan has left behind: one of its extractions failed,
\* and the except clause does not disconnect.
LeftOpen ==
    {p \in OpenConnections : task[p].pc = "returned" /\ task[p].exc # ""}

\* The progress events come in pairs, in the order of the target list: the
\* start event of a profile, then its outcome event.
EventsInTargetOrder ==
    LET ev == ProgressEvents IN
    /\ Len(ev) <= 2 * Len(targets)
    /\ \A i \in 1..Len(ev) :
          /\ ev[i].profile_id = targets[(i + 1) \div 2]
          /\ IF i % 2 = 1 THEN ev[i].message = "connecting"
             ELSE ev[i].message \in {"ok", "fail"}
    /\ Len(ev) = IF pc = "seq_scan" THEN 2 * idx + 1 ELSE 2 * idx

\* C20 as stated: in sequential mode at most one connection is open at any
\* moment.
C20_AtMostOneConnectionOpen ==
    SequentialRun => Cardinality(OpenConnections) <= 1

\* C20 amended: sequential mode processes the profiles one at a time in the
\* order of the target list, which is the registry's order when the
\* registry is left alone: at most one single-source scan is in progress
\* and at most one connection is in use at any moment (the only other open
\* connections are those left behind by scans whose extraction failed), and
\* each processed profile gets its start event and then its outcome event,
\* both before any event of the next profile.
C20_OneAtATimeInOrder ==
    SequentialRun =>
       /\ targets = profiles
       /\ Cardinality(InFlight) <= 1
       /\ Cardinality(OpenConnections \ LeftOpen) <= 1
       /\ OpenConnections \ LeftOpen \subseteq InFlight
       /\ InFlight # {} => pc = "seq_scan" /\ InFlight = {targets[idx + 1]}
       /\ EventsInTargetOrder
       /\ \A i \in 1..Len(targets) :
             task[targets[i]].pc # "none" => i <= idx + 1

\* C20 witness: a sequential run over two profiles has delivered the four
\* events in order; the first scan's extraction failed and its connection
\* was still open while the second profile was connected and scanned.
C20_Witness ==
    /\ SequentialRun
    /\ pc = "done"
    /\ Len(targets) = 2
    /\ Len(ProgressEvents) = 4
    /\ ProgressEvents[2].message = "fail"
    /\ ProgressEvents[4].message = "ok"
    /\ LeftOpen = {targets[1]}
    /\ calls[targets[2]].disconnect = 1

\* The profiles of the run whose processing has not begun: the loop has not
\* reached them (no start event, no call of _scan_single).
NotBegun == {p \in TargetSet : task[p].pc = "none"}

\* C21 (state part): in a sequential run a profile whose processing has not
\* begun has no connection attempt, is in neither result list, has no
\* progress event and is Pending (never Skipped); when the flag is set and
\* no profile has begun, the result is empty and has_data is false.
C21_NotBegunUntouched ==
    SequentialRun =>
       /\ \A p \in NotBegun :
             /\ calls[p] = NoCalls
             /\ ~InSeq(p, result.completed_profiles)
             /\ ~InSeq(p, result.failed_profiles)
             /\ p \notin DOMAIN result.results_by_source
             /\ prof[p].status = "Pending"
             /\ EventsOf(p) = <<>>
       /\ (stop_event /\ NotBegun = TargetSet) =>
             /\ result = EmptyResult
             /\ ~has_data(result)

\* C21: in sequential mode, once stop_scan has set the cancellation flag
\* during a run, no profile whose processing has not yet begun is begun or
\* connected to, none of them is added to completed_profiles or
\* failed_profiles, and each keeps the status it had; if the flag is set
\* before the first profile starts, the result is empty and has_data is
\* false.
C21_StopLeavesRestUntouched ==
    /\ []C21_NotBegunUntouched
    /\ [][(SequentialRun /\ stop_event) =>
             \A p \in NotBegun :
                /\ task'[p].pc = "none"
                /\ prof'[p] = prof[p]
                /\ calls'[p] = calls[p]]_vars

\* C21 witness: a sequential run over two profiles was cancelled while the
\* first was being scanned; it ended with the first Done and recorded, and
\* the second never begun and still Pending.
C21_Witness ==
    /\ SequentialRun
    /\ pc = "done"
    /\ stop_event
    /\ Len(targets) = 2
    /\ prof[targets[1]].status = "Done"
    /\ result.completed_profiles = <<targets[1]>>
    /\ result.failed_profiles = <<>>
    /\ targets[2] \in NotBegun
    /\ prof[targets[2]].status = "Pending"
    /\ Len(ProgressEvents) = 2

\* The scan of p is past its entry check and has not returned yet.
PastEntry(p) == task[p].pc \in {"connect", "extract", "disconnect", "counts"}

\* The scan of p has run to completion: it connected, and it either made
\* every enabled extraction and the disconnect call and ended Done with an
\* inventory, or ran into a failing call and ended Error.
RanToCompletion(p) ==
    /\ task[p].pc = "returned"
    /\ calls[p].connect = 1
    /\ \/ /\ prof[p].status = "Done"
          /\ task[p].ret # NoInventory
          /\ calls[p].disconnect = 1
          /\ \A c \in 1..Len(Cats) :
                calls[p].extract[c] = (IF Toggle(c) THEN 1 ELSE 0)
       \/ /\ prof[p].status = "Error"
          /\ task[p].ret = NoInventory
          /\ task[p].exc # ""

\* C22 (state part): in a parallel run a Skipped scan has returned no
\* inventory and made no call on its connection, and a scan past its entry
\* check is Scanning or Done (never Skipped), whatever the flag is.
C22_SkippedNeverConnects ==
    (Started /\ ParallelRun) =>
       \A p \in TargetSet :
          /\ prof[p].status = "Skipped" =>
                /\ task[p].pc = "returned"
                /\ task[p].ret = NoInventory
                /\ calls[p] = NoCalls
          /\ PastEntry(p) => prof[p].status \in {"Scanning", "Done"}
          /\ (task[p].pc = "returned" /\ calls[p].connect > 0) =>
                RanToCompletion(p)

\* C22: in parallel mode cancellation is advisory: a single-source scan
\* that has passed its entry check runs to completion (connect, the enabled
\* extractions, disconnect, status Done or Error) even if stop_scan is
\* called meanwhile, and a scan whose entry check sees the flag set ends
\* Skipped, returns no inventory and never attempts a connection.
C22_CancellationIsAdvisory ==
    /\ []C22_SkippedNeverConnects
    /\ [][\A p \in Ids :
             (ParallelRun /\ task[p].pc = "entry" /\ task'[p] # task[p]) =>
                IF stop_event
                THEN /\ prof'[p].status = "Skipped"
                     /\ task'[p].pc = "returned"
                     /\ task'[p].ret = NoInventory
                     /\ calls'[p] = NoCalls
                ELSE PastEntry(p)']_vars
    /\ \A p \in Ids :
          (ParallelRun /\ PastEntry(p)) ~> RanToCompletion(p)

\* C22 witness: in a parallel run the flag is set, one scan found it set at
\* its entry check and was skipped, and another one, past its entry check,
\* has made its extractions and its disconnect call and is Done.
C22_Witness ==
    /\ ParallelRun
    /\ stop_event
    /\ \E p, q \in TargetSet :
          /\ prof[q].status = "Skipped"
          /\ q \in joined
          /\ task[p].pc = "counts"
          /\ prof[p].status = "Done"
          /\ calls[p].disconnect = 1

\* The scan task of p has been handed to the pool (executor.submit).
Dispatched(p) == task[p].pc # "none"

\* C23 as stated: in parallel mode the enqueued event of every target
\* profile is emitted before any single-source scan task is dispatched to
\* the worker pool.
C23_AllEnqueuedBeforeAnyDispatch ==
    (Started /\ ParallelRun) =>
       ((\E p \in TargetSet : Dispatched(p)) =>
           \A q \in TargetSet : EventsOf(q) # <<>>)

\* C23 amended: in parallel mode the enqueued event of each target profile
\* is emitted before that profile's own task is dispatched, in target
\* order, and the enqueued events of all profiles come before every outcome
\* event; tasks of earlier profiles may be dispatched already.
C23_EnqueuedBeforeOwnDispatch ==
    (Started /\ ParallelRun) =>
       LET ev == ProgressEvents IN
       /\ \A p \in TargetSet :
             Dispatched(p) =>
                /\ EventsOf(p) # <<>>
                /\ EventsOf(p)[1].message = "enqueued"
       /\ \A i, j \in 1..Len(ev) :
             (i < j /\ ev[j].message = "enqueued") =>
                ev[i].message = "enqueued"
       /\ pc = "par_submit" =>
             /\ Len(ev) = idx
             /\ \A i \in 1..Len(targets) :
                   IF i <= idx
                   THEN ev[i].profile_id = targets[i]
                        /\ Dispatched(targets[i])
                   ELSE ~Dispatched(targets[i])
       /\ pc # "par_submit" =>
             /\ Len(ev) >= Len(targets)
             /\ \A i \in 1..Len(targets) :
                   /\ ev[i].message = "enqueued"
                   /\ ev[i].profile_id = targets[i]

\* C23 witness: both tasks of a parallel run have been submitted, each
\* after its own enqueued event, and the first one has already returned
\* while the join loop has not yielded anything yet.
C23_Witness ==
    /\ ParallelRun
    /\ pc = "par_join"
    /\ joined = {}
    /\ Len(targets) = 2
    /\ Len(ProgressEvents) = 2
    /\ ProgressEvents[1].profile_id = targets[1]
    /\ ProgressEvents[2].profile_id = targets[2]
    /\ task[targets[1]].pc = "returned"
    /\ Dispatched(targets[2])

\* The outcome events of the run, in the order they were emitted.
OutcomeEvents ==
    SelectSeq(ProgressEvents, LAMBDA e : e.message \in {"ok", "fail"})

\* C24: in parallel mode every outcome event is emitted by the join loop
\* for a task that has finished, one per task in the order the loop gets
\* them, and the k-th outcome event of a run over N profiles carries
\* k/N*100: outcome percentages strictly increase and the last outcome
\* event of the run carries exactly 100.
C24_OutcomePercentages ==
    (Started /\ ParallelRun) =>
       LET out == OutcomeEvents
           N == Len(targets) IN
       /\ Len(out) = completed
       /\ Len(out) = Cardinality(joined)
       /\ \A k \in 1..Len(out) :
             /\ out[k].progress_pct[1] * N = k * 100 * out[k].progress_pct[2]
             /\ out[k].progress_pct[2] > 0
             /\ out[k].profile_id \in joined
             /\ task[out[k].profile_id].pc = "returned"
             /\ PctIs(out[k].progress_pct, 100) <=> k = N
       /\ \A i, j \in 1..Len(out) :
             i < j =>
                /\ out[i].profile_id # out[j].profile_id
                /\ PctLeq(out[i].progress_pct, out[j].progress_pct)
                /\ ~PctLeq(out[j].progress_pct, out[i].progress_pct)
       /\ pc \in {"complete", "done"} =>
             /\ Len(out) = N
             /\ PctIs(out[N].progress_pct, 100)
             /\ ProgressEvents[Len(ProgressEvents)] = out[N]

\* C24 witness: a parallel run over two profiles has ended; the task
\* submitted second was joined first and its outcome event carries 50, the
\* other one's carries 100.
C24_Witness ==
    /\ ParallelRun
    /\ pc = "done"
    /\ Len(targets) = 2
    /\ Len(OutcomeEvents) = 2
    /\ OutcomeEvents[1].profile_id = targets[2]
    /\ PctIs(OutcomeEvents[1].progress_pct, 50)
    /\ OutcomeEvents[2].profile_id = targets[1]
    /\ PctIs(OutcomeEvents[2].progress_pct, 100)

\* The task of p raised instead of returning.
Raised(p) == task[p].pc = "raised"

\* C25 (state part): in a parallel run a task that raised and has been
\* joined left its profile with status Error and the exception's text as
\* error_message, in failed_profiles and not in the result's sources, with
\* an outcome event that carries that text; and when the join loop has
\* ended every target has been joined and has its outcome event.
C25_RaisedIsRecordedAsFailed ==
    (Started /\ ParallelRun) =>
       /\ \A p \in joined :
             Raised(p) =>
                /\ prof[p].status = "Error"
                /\ prof[p].error_message = task[p].exc
                /\ InSeq(p, result.failed_profiles)
                /\ ~InSeq(p, result.completed_profiles)
                /\ p \notin DOMAIN result.results_by_source
                /\ Len(EventsOf(p)) = 2
                /\ EventsOf(p)[2].message = "fail"
                /\ EventsOf(p)[2].error = task[p].exc
                /\ EventsOf(p)[2].status = "Error"
       /\ pc \in {"complete", "done"} =>
             /\ joined = TargetSet
             /\ \A p \in TargetSet :
                   /\ Len(EventsOf(p)) = 2
                   /\ InSeq(p, result.failed_profiles)
                         \/ InSeq(p, result.completed_profiles)
       /\ pc # "crashed"

\* C25: in parallel mode a task that raises instead of returning is caught
\* at the join point: the profile gets status Error with the exception
\* text as error_message and is appended to failed_profiles, its outcome
\* event is emitted, and the remaining tasks are still joined and reported
\* (the run goes on to its completion callback).
C25_RaiseCaughtAtJoin ==
    /\ []C25_RaisedIsRecordedAsFailed
    /\ \A p \in Ids :
          (ParallelRun /\ Raised(p)) ~> (p \in joined /\ pc = "done")

\* C25 witness: a parallel run has ended in which the task joined first
\* had raised and the other one's inventory was stored afterwards.
C25_Witness ==
    /\ ParallelRun
    /\ pc = "done"
    /\ Len(OutcomeEvents) = 2
    /\ Raised(OutcomeEvents[1].profile_id)
    /\ OutcomeEvents[1].error = EscapedText
    /\ OutcomeEvents[2].message = "ok"
    /\ Len(result.failed_profiles) = 1
    /\ Len(result.completed_profiles) = 1

\* The texts of the failures of the extraction calls.
ExtractFailures == {ErrorText("extract_" \o Cats[c]) : c \in 1..Len(Cats)}

\* C26: for every single-source scan attempt disconnect is called at most
\* once on its connection: exactly once when connect and all enabled
\* extractions succeeded, and not at all when connect failed or when an
\* extraction failed after a successful connect (the connection is then
\* left open); a skipped scan has no connection at all.
C26_DisconnectAtMostOnce ==
    \A p \in Ids :
       /\ calls[p].disconnect <= 1
       /\ calls[p].disconnect <= calls[p].connect
       /\ task[p].pc = "returned" =>
             /\ task[p].exc = ErrorText("connect") =>
                   calls[p].connect = 1 /\ calls[p].disconnect = 0
             /\ task[p].exc \in ExtractFailures =>
                   /\ calls[p].connect = 1
                   /\ calls[p].disconnect = 0
                   /\ p \in LeftOpen
             /\ (calls[p].connect = 1
                 /\ task[p].exc \notin ExtractFailures
                                       \cup {ErrorText("connect")}) =>
                   /\ calls[p].disconnect = 1
                   /\ \A c \in 1..Len(Cats) :
                         calls[p].extract[c] = (IF Toggle(c) THEN 1 ELSE 0)
             /\ prof[p].status = "Done" => calls[p].disconnect = 1
             /\ prof[p].status = "Skipped" => calls[p] = NoCalls

\* C26 witness: in one run a scan succeeded and called disconnect once,
\* and another one, whose datastore extraction failed after a successful
\* connect, returned without a disconnect call.
C26_Witness ==
    /\ pc = "done"
    /\ \E p, q \in TargetSet :
          /\ prof[p].status = "Done"
          /\ calls[p].connect = 1
          /\ calls[p].disconnect = 1
          /\ task[q].exc = ErrorText("extract_datastores")
          /\ calls[q].connect = 1
          /\ calls[q].disconnect = 0

\* The disconnect call of the scan of p failed, after a successful connect
\* and successful extractions, and the scan has returned.
DisconnectFailed(p) ==
    /\ task[p].pc = "returned"
    /\ calls[p].disconnect = 1
    /\ task[p].exc = ErrorText("disconnect")

\* C27: a failure of disconnect after a successful connect and successful
\* extractions does not downgrade the scan outcome: the profile still ends
\* with status Done, its inventory is returned and it is listed in
\* completed_profiles.
C27_DisconnectFailureKeepsDone ==
    \A p \in TargetSet :
       DisconnectFailed(p) =>
          /\ prof[p].status = "Done"
          /\ task[p].ret # NoInventory
          /\ pc = "done" => InSeq(p, result.completed_profiles)

\* The run is iterating over the registry's own list: _scan_sequential's
\* for loop has started on the list start_scan took from self.profiles and
\* has not ended.
IteratingRegistry == aliased /\ pc \in {"seq_loop", "seq_scan"}

\* C28: every access to the profile registry, the iteration done by a
\* running scan included, is performed while holding the registry lock, so
\* no registry read or iteration interleaves with a registry mutation: the
\* list a run is iterating over is not changed by add_profile or
\* clear_profiles while the iteration is in progress.
C28_NoMutationDuringIteration ==
    [][IteratingRegistry => targets' = targets]_vars

\* test_connection is running on p: it has written TESTING and has not
\* written its outcome yet.
Testing(p) == test[p].pc \in {"connect", "disconnect"}

\* C29: a profile's mutable scan fields are written by at most one worker
\* at a time: while a single-source scan is in progress on a profile only
\* that scan's steps write the profile, and while test_connection is in
\* progress on a profile only that test's steps write it (no write by
\* test_connection, reset_all_statuses or another run in between).
C29_OneWriterAtATime ==
    [][\A p \in Ids :
          prof'[p] # prof[p] =>
             /\ PastEntry(p) => task'[p] # task[p]
             /\ Testing(p) => test'[p] # test[p]]_vars

\* The elements of a list, and whether none of them occurs twice.
Elems(s) == {s[i] : i \in 1..Len(s)}
NoRepeat(s) == \A i, j \in 1..Len(s) : i # j => s[i] # s[j]

\* C30: at every point of a run whose target profiles have distinct ids,
\* the key set of results_by_source equals the set of ids of
\* completed_profiles, completed_profiles and failed_profiles are
\* disjoint, and no profile occurs twice in either list.
C30_ResultListsConsistent ==
    (Started /\ NoRepeat(targets)) =>
       /\ DOMAIN result.results_by_source = Elems(result.completed_profiles)
       /\ Elems(result.completed_profiles)
             \cap Elems(result.failed_profiles) = {}
       /\ NoRepeat(result.completed_profiles)
       /\ NoRepeat(result.failed_profiles)
       /\ Elems(result.completed_profiles) \cup Elems(result.failed_profiles)
             \subseteq TargetSet

\* C30 witness: a parallel run has ended with the profile submitted second
\* completed and stored and the first one failed.
C30_Witness ==
    /\ ParallelRun
    /\ pc = "done"
    /\ Len(targets) = 2
    /\ result.completed_profiles = <<targets[2]>>
    /\ result.failed_profiles = <<targets[1]>>
    /\ DOMAIN result.results_by_source = {targets[2]}

\* C31: a stop_scan request issued while a run is in progress stays in
\* effect until that run completes: no later call, a start_scan for another
\* run included, clears it while the run's thread is alive, so the run does
\* not resume processing profiles it had not yet started.
C31_StopStaysInEffect ==
    [][(RunInProgress /\ stop_event) => stop_event']_vars

\* The number of profiles the run has processed so far (every processed
\* profile is appended to one of the two lists).
ProcessedCount ==
    Len(result.completed_profiles) + Len(result.failed_profiles)

\* C32: the set of profiles a run processes is fixed when start_scan is
\* called: add_profile, remove_profile and clear_profiles executed while
\* the run is in progress neither add profiles to the run's list nor drop
\* profiles from it, and the total used for the progress percentages is the
\* number of profiles the run has processed when it ends.
C32_TargetsFixedAtStart ==
    /\ [][RunInProgress => targets' = targets]_vars
    /\ [](pc = "done" => ProcessedCount = total)

\* C33: when start_scan is given a profiles_override list the run is handed
\* exactly that list, for every list including the empty one, and it
\* processes no profile outside it; without an override the run is handed
\* the registry's profiles.
C33_OverrideIsTheTargetList ==
    /\ [][(pc = "idle" /\ pc' = "run") =>
             targets' = IF profiles_override'.given
                        THEN profiles_override'.list
                        ELSE profiles]_vars
    /\ [](profiles_override.given =>
             \A p \in Ids :
                task[p].pc # "none" => InSeq(p, profiles_override.list))
====
